---- MODULE Spec2Model ----
(***************************************************************************)
(* Transfer engine of the S3 client (src/src/main/aws/transfer-engine.ts). *)
(* The engine runs on the Node event loop: every exported function and     *)
(* every promise continuation / stream callback runs to completion before  *)
(* the next one starts, so each of them is one atomic action here.  The    *)
(* await points of executeUpload / executeDownload are the places where    *)
(* other handlers interleave; they are the values of a run's pc.           *)
(***************************************************************************)
EXTENDS Integers, Sequences, FiniteSets, TLC

\* ---------------------------------------------------------------- bounds
\* Spec: the engine with the clock standing still (every step falls within
\* one clock granule)
MaxJobs == 3          \* jobs created in one behaviour
MaxRuns == 3          \* executor runs launched in one behaviour
MaxCalls == 2         \* cancel / pause / resume calls in one behaviour
\* SpecLite: the same engine within smaller bounds
LiteJobs == 2
LiteRuns == 2
LiteCalls == 1
\* SpecClock: the engine with the clock advancing
ClockJobs == 1
ClockRuns == 1
ClockCalls == 1
MaxTicks == 1         \* clock advances in one behaviour
\* SpecTime: the engine with the clock advancing, one job dispatched again
TimeJobs == 1
TimeRuns == 2
TimeCalls == 2
\* SpecSettings: the most fields one settings update carries
MaxFields == 2
\* SpecIds: enqueues and executor events, no cancel / pause / resume
IdJobs == 3
IdRuns == 3
\* SpecRename: renameObject calls in one behaviour
MaxRenames == 2
\* SpecClear: uploads with clearCompleted
ClearJobs == 2
ClearRuns == 2
ClearCalls == 1
\* SpecBatch: the most items one transfer:download-files request carries
MaxItems == 2
\* SpecRetune: the engine with settings updates arriving between its steps
RetuneJobs == 2
RetuneRuns == 2
RetuneCalls == 1
\* SpecPrune: pruneQueue applied to queues of up to PruneLen jobs
PruneLen == 3
\* SpecUpload: the engine when only uploads are enqueued
UpJobs == 2
UpRuns == 2
UpCalls == 2
\* SpecStream: the engine with transfers that arrive in several chunks
StreamJobs == 1
StreamRuns == 1
StreamCalls == 1
\* The history ceiling. The source keeps 200 terminal jobs; the model keeps a
\* small number so that the ceiling is exceeded within MaxJobs jobs.
MAX_HISTORY_SIZE == 1

\* ---------------------------------------------------------------- constants
MinEmitGapMs == 100                   \* emitProgress: now - last < 100
TickMs == MinEmitGapMs                \* granularity of the modelled clock
StartTime == 10 * MinEmitGapMs        \* Date.now() at start-up (far from 0)
ThreadChoices == {1}                  \* concurrentThreads in force (settings:set accepts 1..100)
FileSizes == {1}                      \* stat result / caller-supplied size
ChunkSizes == {1}                     \* bytes one progress event / one chunk adds
ByteCounts == 0..1                    \* bytes one executor run can have moved
StreamChunkSizes == {1, 2}            \* SpecStream: chunk lengths
StreamByteCounts == 0..3              \* SpecStream: bytes one executor run can have moved
Messages == {"msg"}                   \* err.message of a rejected operation ("msg": any non-empty text)
EmptyBody == "msg"                    \* the message of new Error('Empty response body'), non-empty
StreamMessages == {"", "msg"}         \* SpecStream: err.message, empty or not
NoReturn == [alias |-> FALSE, value |-> <<>>]   \* getTransferSettings not called yet
Bucket == "bucket"                    \* the bucket the modelled jobs use
NoSuchId == <<0, 0>>                  \* a job id no enqueue ever returned
NoJob == 0                            \* Array.prototype.find found nothing

Terminal == {"completed", "failed", "cancelled"}
IsTerminal(s) == s \in Terminal

VARIABLES
    settings,          \* let settings: TransferSettings
    queue,             \* const queue: TransferJob[]   (sequence of job objects, by reference)
    jobs,              \* the job objects ever created, in creation order (the heap)
    activeCount,       \* let activeCount
    abortControllers,  \* Map job id -> controller (named by the run that created it)
    lastEmitTime,      \* Map job id -> time of the last delivered snapshot
    progressCallback,  \* TRUE when a subscriber is bound
    jobIdCounter,      \* let jobIdCounter
    execs,             \* executor runs whose promise has not settled
    runCounter,        \* executor runs launched so far
    calls,             \* cancel / pause / resume calls made so far
    now,               \* Date.now()
    delivered,         \* snapshots handed to the subscriber by the last step, in order
    lastOp,            \* the last step: operation, job it addressed, that job's status before
    lastNT,            \* history: job id -> time of its last delivered non-terminal snapshot
    cancelledPending,  \* history: jobs that cancelTransfer cancelled while pending
    cancelledActive,   \* history: jobs that cancelTransfer cancelled while active
    disturbed,         \* history: jobs that were paused, or addressed by a cancelTransfer
    batch,             \* history: jobs enqueued back to back since the engine was idle (0: none)
    launchedWith,      \* history: run -> the settings in force when the dispatcher launched it
    returned,          \* the record the last getTransferSettings call handed to its caller
    rename             \* the bucket and the renameObject call in progress (s3-service.ts)

engineVars == <<settings, queue, jobs, activeCount, abortControllers, lastEmitTime,
                progressCallback, jobIdCounter, execs, runCounter, calls, now,
                delivered, lastOp, lastNT, cancelledPending, cancelledActive, disturbed,
                batch, launchedWith, returned>>
vars == <<settings, queue, jobs, activeCount, abortControllers, lastEmitTime,
          progressCallback, jobIdCounter, execs, runCounter, calls, now,
          delivered, lastOp, lastNT, cancelledPending, cancelledActive, disturbed,
          batch, launchedWith, returned, rename>>

\* ---------------------------------------------------------------- helpers
\* f with key k set to v (Map.prototype.set)
MapSet(f, k, v) == [x \in DOMAIN f \cup {k} |-> IF x = k THEN v ELSE f[x]]
\* f without key k (Map.prototype.delete)
MapDelete(f, k) == [x \in DOMAIN f \ {k} |-> f[x]]
EmptyMap == [x \in {} |-> 0]

RemoveAt(q, i) == [k \in 1..(Len(q) - 1) |-> IF k < i THEN q[k] ELSE q[k + 1]]

\* the engine state a handler works on; delivered starts empty for the step
Eng == [jobs |-> jobs, queue |-> queue, activeCount |-> activeCount,
        abortControllers |-> abortControllers, lastEmitTime |-> lastEmitTime,
        jobIdCounter |-> jobIdCounter,
        execs |-> execs, runCounter |-> runCounter, delivered |-> <<>>]

\* queue.find(j => j.id === jobId): the first job object in the queue with that id
RECURSIVE FindFrom(_, _, _, _)
FindFrom(q, js, jobId, i) ==
    IF i > Len(q) THEN NoJob
    ELSE IF js[q[i]].id = jobId THEN q[i]
    ELSE FindFrom(q, js, jobId, i + 1)
Find(e, jobId) == FindFrom(e.queue, e.jobs, jobId, 1)

\* mutant: generateId without the counter
GenerateIdTimeOnly(t, counter) == <<t, 0>>

\* generateId: `transfer-${Date.now()}-${++jobIdCounter}` with the counter already incremented
GenerateId(t, counter) == <<t, counter>>

\* the decimal digits of n >= 0, as the template literal writes them
RECURSIVE Decimal(_)
Decimal(n) == IF n < 10 THEN <<n>> ELSE Append(Decimal(n \div 10), n % 10)

\* the string the template literal of generateId builds from the two numbers
IdText(id) == <<"transfer-">> \o Decimal(id[1]) \o <<"-">> \o Decimal(id[2])

\* ---------------------------------------------------------------- emitProgress
\* mutant: emitProgress without the rate limit
EmitProgressUnlimited(e, h) ==
    LET job == e.jobs[h]
    IN  IF ~progressCallback THEN e
        ELSE [e EXCEPT !.lastEmitTime = MapSet(MapDelete(@, job.id), job.id, now),
                       !.delivered = Append(@, job)]

EmitProgress(e, h) ==
    LET job == e.jobs[h]
        last == IF job.id \in DOMAIN e.lastEmitTime THEN e.lastEmitTime[job.id] ELSE 0
    IN  IF ~progressCallback THEN e
        ELSE IF ~IsTerminal(job.status) /\ now - last < MinEmitGapMs THEN e
        ELSE [e EXCEPT !.lastEmitTime = MapSet(MapDelete(@, job.id), job.id, now),
                       !.delivered = Append(@, job)]

\* ---------------------------------------------------------------- pruneQueue
RECURSIVE PruneLoop(_, _, _, _, _)
PruneLoop(q, js, i, removed, toRemove) ==
    IF i <= Len(q) /\ removed < toRemove
    THEN IF IsTerminal(js[q[i]].status)
         THEN PruneLoop(RemoveAt(q, i), js, i, removed + 1, toRemove)
         ELSE PruneLoop(q, js, i + 1, removed, toRemove)
    ELSE q

TerminalCount(q, js) == Cardinality({i \in 1..Len(q) : IsTerminal(js[q[i]].status)})

\* mutant: pruneQueue evicting the oldest jobs whatever their status
PruneQueueAnyStatus(e) ==
    LET terminal == TerminalCount(e.queue, e.jobs)
    IN  IF terminal > MAX_HISTORY_SIZE
        THEN [e EXCEPT !.queue = SubSeq(@, terminal - MAX_HISTORY_SIZE + 1, Len(@))]
        ELSE e

PruneQueue(e) ==
    LET terminal == TerminalCount(e.queue, e.jobs)
    IN  IF terminal > MAX_HISTORY_SIZE
        THEN [e EXCEPT !.queue = PruneLoop(e.queue, e.jobs, 1, 0, terminal - MAX_HISTORY_SIZE)]
        ELSE e

\* ---------------------------------------------------------------- executor runs
\* One run of executeUpload / executeDownload.  pc is the await the run is
\* suspended at: "region" = getBucketRegion, "send" = client.send(GetObject),
\* "xfer" = upload.done() or the download's stream promise, "hung" = a stream
\* promise whose streams were destroyed (it never settles).
NewRun(rid, h) == [rid |-> rid, job |-> h, pc |-> "region", aborted |-> FALSE,
                   bytes |-> 0, partSizeMB |-> 0, queueSize |-> 0]

Min(a, b) == IF a < b THEN a ELSE b

\* executeUpload lines 111-139 / executeDownload lines 161-168: what a run does
\* between the resolution of getBucketRegion and its next await
Register(e, run) ==
    LET job == e.jobs[run.job]
        next == IF job.direction = "upload"
                THEN [run EXCEPT !.pc = "xfer",
                                 !.partSizeMB = settings.partSizeMB,
                                 !.queueSize = Min(settings.concurrentThreads, 4)]
                ELSE [run EXCEPT !.pc = "send"]
    IN  [e EXCEPT !.abortControllers = MapSet(@, job.id, run.rid),
                  !.execs = (@ \ {run}) \cup {next}]

\* controller.abort() on the controller stored under jobId, then delete the entry
AbortAndDelete(e, jobId) ==
    IF jobId \in DOMAIN e.abortControllers
    THEN [e EXCEPT !.execs = {IF r.rid = e.abortControllers[jobId]
                              THEN [r EXCEPT !.aborted = TRUE] ELSE r : r \in @},
                   !.abortControllers = MapDelete(@, jobId)]
    ELSE e

\* ---------------------------------------------------------------- processQueue
\* queue.find(j => j.status === 'pending')
RECURSIVE FirstPendingFrom(_, _, _)
FirstPendingFrom(q, js, i) ==
    IF i > Len(q) THEN NoJob
    ELSE IF js[q[i]].status = "pending" THEN q[i]
    ELSE FirstPendingFrom(q, js, i + 1)
\* mutant: the dispatcher taking the first job that is pending or cancelled
RECURSIVE FirstPendingOrCancelledFrom(_, _, _)
FirstPendingOrCancelledFrom(q, js, i) ==
    IF i > Len(q) THEN NoJob
    ELSE IF js[q[i]].status \in {"pending", "cancelled"} THEN q[i]
    ELSE FirstPendingOrCancelledFrom(q, js, i + 1)
FirstPendingOrCancelled(e) == FirstPendingOrCancelledFrom(e.queue, e.jobs, 1)
\* mutant: the dispatcher taking the pending job at the highest queue position
RECURSIVE LastPendingFrom(_, _, _)
LastPendingFrom(q, js, i) ==
    IF i < 1 THEN NoJob
    ELSE IF js[q[i]].status = "pending" THEN q[i]
    ELSE LastPendingFrom(q, js, i - 1)
LastPending(e) == LastPendingFrom(e.queue, e.jobs, Len(e.queue))

FirstPending(e) == FirstPendingFrom(e.queue, e.jobs, 1)

\* one iteration of the while loop: promote the job, start its executor.  The
\* executor runs synchronously up to await getBucketRegion.  (When the region is
\* cached the await resolves in a microtask, before any other handler can run:
\* that is the behaviour in which RegionResolved for the run is the next step.)
Launch(e, h) ==
    LET e1 == [e EXCEPT !.jobs[h].status = "active",
                        !.jobs[h].startedAt = now,
                        !.activeCount = @ + 1]
        e2 == EmitProgress(e1, h)
        run == NewRun(e2.runCounter + 1, h)
    IN  [e2 EXCEPT !.runCounter = @ + 1, !.execs = @ \cup {run}]

RECURSIVE ProcessLoop(_, _)
ProcessLoop(e, maxActive) ==
    IF e.activeCount < maxActive /\ FirstPending(e) # NoJob
    THEN ProcessLoop(Launch(e, FirstPending(e)), maxActive)
    ELSE e

ProcessQueue(e) == ProcessLoop(e, settings.concurrentThreads)

\* the finally block of the executor followed by the .finally of processQueue
Finally(e, run) ==
    LET e1 == [e EXCEPT !.abortControllers = MapDelete(@, e.jobs[run.job].id),
                        !.execs = {r \in @ : r.rid # run.rid}]
        e2 == [e1 EXCEPT !.activeCount = @ - 1]
    IN  ProcessQueue(PruneQueue(e2))

\* mutant: the catch block without the test for cancelled
CatchUnguarded(e, run, msg) ==
    LET h == run.job
    IN  EmitProgress([e EXCEPT !.jobs[h].status = "failed",
                               !.jobs[h].error = IF msg # "" THEN msg ELSE "failed"], h)

\* the catch block of executeUpload / executeDownload; msg is err.message
Catch(e, run, msg) ==
    LET h == run.job
        fallback == IF e.jobs[h].direction = "upload" THEN "Upload failed" ELSE "Download failed"
    IN  IF e.jobs[h].status # "cancelled"
        THEN EmitProgress([e EXCEPT !.jobs[h].status = "failed",
                                    !.jobs[h].error = IF msg # "" THEN msg ELSE fallback], h)
        ELSE e

\* lines 141-146 (upload) and 196-200 (download): the code after the last await
Complete(e, run) ==
    LET h == run.job
        job == e.jobs[h]
    IN  IF job.status # "cancelled"
        THEN IF job.direction = "upload"
             THEN EmitProgress([e EXCEPT !.jobs[h].status = "completed",
                                         !.jobs[h].transferred = job.fileSize,
                                         !.jobs[h].completedAt = now], h)
             ELSE EmitProgress([e EXCEPT !.jobs[h].status = "completed",
                                         !.jobs[h].completedAt = now], h)
        ELSE e

\* mutant: the handlers storing the size of the last chunk, not the running total
OnProgressChunkOnly(e, run, n) ==
    LET h == run.job
        job == e.jobs[h]
        moved == [run EXCEPT !.bytes = @ + n]
    IN  IF job.status = "cancelled"
        THEN [e EXCEPT !.execs = (@ \ {run}) \cup {IF job.direction = "upload" THEN moved
                                                    ELSE [run EXCEPT !.pc = "hung"]}]
        ELSE EmitProgress([e EXCEPT !.execs = (@ \ {run}) \cup {moved},
                                    !.jobs[h].transferred = n], h)

\* the httpUploadProgress handler (n more bytes loaded) / the 'data' handler
\* (a chunk of n bytes)
OnProgress(e, run, n) ==
    LET h == run.job
        job == e.jobs[h]
        moved == [run EXCEPT !.bytes = @ + n]
    IN  IF job.direction = "upload"
        THEN LET e1 == [e EXCEPT !.execs = (@ \ {run}) \cup {moved}]
             IN  IF job.status = "cancelled" THEN e1
                 ELSE EmitProgress([e1 EXCEPT !.jobs[h].transferred = moved.bytes], h)
        ELSE IF job.status = "cancelled"
             THEN [e EXCEPT !.execs = (@ \ {run}) \cup {[run EXCEPT !.pc = "hung"]}]
             ELSE EmitProgress([e EXCEPT !.execs = (@ \ {run}) \cup {moved},
                                         !.jobs[h].transferred = moved.bytes], h)

\* ---------------------------------------------------------------- exported functions
NewJob(id, direction, fileSize) ==
    [id |-> id, direction |-> direction, bucket |-> Bucket, fileSize |-> fileSize,
     transferred |-> 0, status |-> "pending", error |-> "", startedAt |-> 0,
     completedAt |-> 0]

\* enqueueUpload / enqueueDownload: build the job, push, emit, dispatch
Enqueue(e, direction, fileSize) ==
    LET counter == e.jobIdCounter + 1
        job == NewJob(GenerateId(now, counter), direction, fileSize)
        h == Len(e.jobs) + 1
        e1 == [e EXCEPT !.jobIdCounter = counter,
                        !.jobs = Append(@, job),
                        !.queue = Append(@, h)]
    IN  ProcessQueue(EmitProgress(e1, h))

CancelTransferOn(e, jobId) ==
    LET h == Find(e, jobId)
    IN  IF h = NoJob THEN e
        ELSE EmitProgress(AbortAndDelete([e EXCEPT !.jobs[h].status = "cancelled"], jobId), h)

\* mutant: pauseTransfer without its emitProgress call
PauseTransferSilent(e, jobId) ==
    LET h == Find(e, jobId)
    IN  IF h = NoJob \/ e.jobs[h].status # "active" THEN e
        ELSE LET e1 == AbortAndDelete([e EXCEPT !.jobs[h].status = "paused"], jobId)
             IN  [e1 EXCEPT !.activeCount = @ - 1]

PauseTransferOn(e, jobId) ==
    LET h == Find(e, jobId)
    IN  IF h = NoJob \/ e.jobs[h].status # "active" THEN e
        ELSE LET e1 == AbortAndDelete([e EXCEPT !.jobs[h].status = "paused"], jobId)
             IN  EmitProgress([e1 EXCEPT !.activeCount = @ - 1], h)

ResumeTransferOn(e, jobId) ==
    LET h == Find(e, jobId)
    IN  IF h = NoJob \/ e.jobs[h].status # "paused" THEN e
        ELSE ProcessQueue(EmitProgress([e EXCEPT !.jobs[h].status = "pending",
                                                 !.jobs[h].transferred = 0], h))

\* ---------------------------------------------------------------- actions
\* pruned is filled in by Commit: the number of jobs the step removed from the
\* queue; n is the size of the chunk a progress event carried; s is the
\* argument of a settings update
Op(name, h, from) == [op |-> name, job |-> h, from |-> from, pruned |-> 0, n |-> 0,
                      s |-> EmptyMap]
StatusOf(h) == IF h = NoJob THEN "none" ELSE jobs[h].status

\* ids of the snapshots with a non-terminal status among those a step delivered
NonTerminalIds(d) == {d[k].id : k \in {i \in 1..Len(d) : ~IsTerminal(d[i].status)}}

ControlOps == {"cancelTransfer", "pauseTransfer", "resumeTransfer"}
EnqueueOps == {"enqueueUpload", "enqueueDownload"}

\* nothing is running or waiting to run: no executor, and every job still in the
\* queue has a terminal status
Idle == execs = {} /\ \A i \in 1..Len(queue) : IsTerminal(jobs[queue[i]].status)

\* the step's result becomes the next state; the history variables follow from it
Commit(e0, op, B) ==
  \E e \in {e0} :
    /\ e.runCounter <= B.runs
    /\ e.jobIdCounter <= B.jobs
    /\ jobs' = e.jobs
    /\ queue' = e.queue
    /\ activeCount' = e.activeCount
    /\ abortControllers' = e.abortControllers
    /\ lastEmitTime' = e.lastEmitTime
    /\ jobIdCounter' = e.jobIdCounter
    /\ execs' = e.execs
    /\ runCounter' = e.runCounter
    /\ delivered' = e.delivered
    /\ lastOp' = [op EXCEPT !.pruned = IF Len(e.queue) < Len(queue)
                                      THEN Len(queue) - Len(e.queue) ELSE 0]
    /\ lastNT' = [id \in DOMAIN lastNT \cup NonTerminalIds(e.delivered) |->
                     IF id \in NonTerminalIds(e.delivered) THEN now ELSE lastNT[id]]
    /\ cancelledPending' = IF op.op = "cancelTransfer" /\ op.from = "pending"
                           THEN cancelledPending \cup {op.job} ELSE cancelledPending
    /\ cancelledActive' = IF op.op = "cancelTransfer" /\ op.from = "active"
                          THEN cancelledActive \cup {op.job} ELSE cancelledActive
    /\ disturbed' = IF \/ op.op = "cancelTransfer" /\ op.job # NoJob
                       \/ op.op = "pauseTransfer" /\ op.from = "active"
                    THEN disturbed \cup {op.job} ELSE disturbed
    /\ batch' = IF op.op \notin EnqueueOps THEN 0
                ELSE IF Idle THEN 1
                ELSE IF batch > 0 THEN batch + 1 ELSE 0
    /\ calls' = IF op.op \in ControlOps THEN calls + 1 ELSE calls
    /\ calls' <= B.calls
    /\ launchedWith' = [rid \in DOMAIN launchedWith \cup {r.rid : r \in e.execs} |->
                           IF rid \in DOMAIN launchedWith THEN launchedWith[rid] ELSE settings]
    /\ UNCHANGED <<settings, progressCallback, now, returned, rename>>

\* every job id an enqueue has returned, and one id that none has
JobIds == {jobs[h].id : h \in 1..Len(jobs)} \cup {NoSuchId}

EnqueueUpload(B) ==
    \E fileSize \in FileSizes :
        Commit(Enqueue(Eng, "upload", fileSize), Op("enqueueUpload", Len(jobs) + 1, "none"), B)

EnqueueDownload(B) ==
    \E fileSize \in FileSizes :
        Commit(Enqueue(Eng, "download", fileSize), Op("enqueueDownload", Len(jobs) + 1, "none"), B)

CancelTransfer(B) ==
    \E jobId \in JobIds :
        LET h == Find(Eng, jobId)
        IN  Commit(CancelTransferOn(Eng, jobId), Op("cancelTransfer", h, StatusOf(h)), B)

PauseTransfer(B) ==
    \E jobId \in JobIds :
        LET h == Find(Eng, jobId)
        IN  Commit(PauseTransferOn(Eng, jobId), Op("pauseTransfer", h, StatusOf(h)), B)

ResumeTransfer(B) ==
    \E jobId \in JobIds :
        LET h == Find(Eng, jobId)
        IN  Commit(ResumeTransferOn(Eng, jobId), Op("resumeTransfer", h, StatusOf(h)), B)

\* getBucketRegion resolves (it never rejects: a failed lookup yields the
\* fallback region)
RegionResolved(B) ==
    \E run \in execs :
        /\ run.pc = "region"
        /\ Commit(Register(Eng, run), Op("regionResolved", run.job, StatusOf(run.job)), B)

\* client.send(GetObjectCommand) resolves; without a Body the executor throws
SendResolved(B) ==
    \E run \in execs, hasBody \in BOOLEAN :
        /\ run.pc = "send" /\ ~run.aborted
        /\ LET e1 == IF hasBody
                     THEN [Eng EXCEPT !.execs = (@ \ {run}) \cup {[run EXCEPT !.pc = "xfer"]}]
                     ELSE Finally(Catch(Eng, run, EmptyBody), run)
           IN  Commit(e1, Op("sendResolved", run.job, StatusOf(run.job)), B)

\* httpUploadProgress / 'data': n more bytes
ExecProgress(B) ==
    \E run \in execs, n \in B.chunks :
        /\ run.pc = "xfer" /\ ~run.aborted
        /\ run.bytes + n \in B.bytes
        /\ Commit(OnProgress(Eng, run, n),
                  [Op("execProgress", run.job, StatusOf(run.job)) EXCEPT !.n = n], B)

\* upload.done() resolves / the write stream finishes
ExecSuccess(B) ==
    \E run \in execs :
        /\ run.pc = "xfer" /\ ~run.aborted
        /\ Commit(Finally(Complete(Eng, run), run), Op("execSuccess", run.job, StatusOf(run.job)), B)

\* the awaited operation rejects: an I/O error, or the abort of its controller
ExecError(B) ==
    \E run \in execs, msg \in B.messages :
        /\ run.pc \in {"send", "xfer"}
        /\ Commit(Finally(Catch(Eng, run, msg), run),
                  Op("execError", run.job, StatusOf(run.job)), B)

\* ---------------------------------------------------------------- renameObject
\* objects: the keys present in the bucket; had: those present when the call
\* was made; issued: the commands the call has sent, in order; copied: the
\* CopyObject command succeeded; pc: the await the call is suspended at
\* ("copy", "delete"), or how it ended ("done" = resolved, "failed" = rejected)
Keys == {"a", "b", "c"}
NoRename == [pc |-> "idle", oldKey |-> "a", newKey |-> "a", objects |-> {}, had |-> {},
             issued |-> <<>>, copied |-> FALSE, count |-> 0]

\* mutant: renameObject going on to deleteObjects whatever copyObject did
AfterCopyAlways(ok) == "delete"

\* await copyObject(...): a rejection leaves renameObject, a success reaches
\* the call of deleteObjects
AfterCopy(ok) == IF ok THEN "delete" ELSE "failed"

\* renameObject(bucket, oldKey, newKey) is called, no other call being in progress
RenameObject ==
    \E oldKey \in Keys, newKey \in Keys :
        /\ rename.pc \in {"idle", "done", "failed"}
        /\ rename.count < MaxRenames
        /\ rename' = [rename EXCEPT !.oldKey = oldKey, !.newKey = newKey,
                                    !.had = rename.objects,
                                    !.copied = FALSE,
                                    !.count = @ + 1,
                                    !.issued = IF oldKey = newKey THEN <<>> ELSE <<"copy">>,
                                    !.pc = IF oldKey = newKey THEN "done" ELSE "copy"]
        /\ UNCHANGED engineVars

\* the CopyObject command settles: it can succeed only when the source exists;
\* when it fails the copy may or may not have been made (applied)
CopySettled ==
    \E ok \in BOOLEAN, applied \in BOOLEAN :
        /\ rename.pc = "copy"
        /\ ok => rename.oldKey \in rename.objects /\ applied
        /\ applied => rename.oldKey \in rename.objects
        /\ rename' = [rename EXCEPT
                         !.objects = IF applied THEN @ \cup {rename.newKey} ELSE @,
                         !.copied = ok,
                         !.pc = AfterCopy(ok),
                         !.issued = IF AfterCopy(ok) = "delete" THEN Append(@, "delete") ELSE @]
        /\ UNCHANGED engineVars

\* the DeleteObjects command settles; in Quiet mode a key that could not be
\* deleted does not make the command fail, and a failed command may have
\* deleted the key (applied)
DeleteSettled ==
    \E ok \in BOOLEAN, applied \in BOOLEAN :
        /\ rename.pc = "delete"
        /\ rename' = [rename EXCEPT
                         !.objects = IF applied THEN @ \ {rename.oldKey} ELSE @,
                         !.pc = IF ok THEN "done" ELSE "failed"]
        /\ UNCHANGED engineVars

\* the loop of clearCompleted from index i down: splice out the terminal jobs
RECURSIVE ClearLoop(_, _, _)
ClearLoop(q, js, i) ==
    IF i < 1 THEN q
    ELSE IF IsTerminal(js[q[i]].status) THEN ClearLoop(RemoveAt(q, i), js, i - 1)
    ELSE ClearLoop(q, js, i - 1)

\* mutant: clearCompleted removing every job that is not active
RECURSIVE ClearIdleLoop(_, _, _)
ClearIdleLoop(q, js, i) ==
    IF i < 1 THEN q
    ELSE IF js[q[i]].status # "active" THEN ClearIdleLoop(RemoveAt(q, i), js, i - 1)
    ELSE ClearIdleLoop(q, js, i - 1)
ClearNotActive(e) == [e EXCEPT !.queue = ClearIdleLoop(@, e.jobs, Len(@))]

ClearCompletedOn(e) == [e EXCEPT !.queue = ClearLoop(@, e.jobs, Len(@))]

ClearCompleted(B) == Commit(ClearCompletedOn(Eng), Op("clearCompleted", NoJob, "none"), B)

\* the items of a transfer:download-files request: one whose key has a usable
\* base name, and one whose key has none (it is empty, or ends in '.' or '..')
ItemKinds == {"valid", "invalid"}
ItemLists == UNION {[1..n -> ItemKinds] : n \in 1..MaxItems}

\* items.map(...) from item i on: enqueueDownload for each item until the
\* callback throws for an invalid one
RECURSIVE MapItems(_, _, _, _)
MapItems(e, items, i, fileSize) ==
    IF i > Len(items) \/ items[i] = "invalid" THEN e
    ELSE MapItems(Enqueue(e, "download", fileSize), items, i + 1, fileSize)

\* the transfer:download-files handler from its items.map on (localDir given)
DownloadFiles(B) ==
    \E items \in ItemLists, fileSize \in FileSizes :
        Commit(MapItems(Eng, items, 1, fileSize),
               Op("downloadFiles", NoJob,
                  IF \E i \in 1..Len(items) : items[i] = "invalid"
                  THEN "rejected" ELSE "accepted"), B)

\* ---------------------------------------------------------------- settings
SettingsFields == {"partSizeMB", "concurrentThreads", "maxBandwidthKBps", "verifyChecksum"}
PartSizeChoices == {4, 5, 100, 101}
ThreadUpdates == {0, 1, 100, 101}
BandwidthChoices == {-1, 0}
ChecksumChoices == {TRUE}

\* the fields the settings:set handler tests with typeof ... !== 'number'
NumericFields == {"partSizeMB", "concurrentThreads", "maxBandwidthKBps"}

\* A Partial<TransferSettings>: the fields it has (present), their values, and
\* which of the numeric fields hold a value that is not a number (mistyped);
\* the value recorded for a field it does not have, or for a mistyped one, is
\* never read.
SettingsValues == [partSizeMB : PartSizeChoices, concurrentThreads : ThreadUpdates,
                   maxBandwidthKBps : BandwidthChoices, verifyChecksum : ChecksumChoices]
Unread == CHOOSE v \in SettingsValues : TRUE
Partials ==
    {p \in [present : {E \in SUBSET SettingsFields : Cardinality(E) <= MaxFields},
            value : SettingsValues,
            mistyped : SUBSET NumericFields] :
        /\ p.mistyped \subseteq p.present
        /\ \A f \in (SettingsFields \ p.present) \cup p.mistyped : p.value[f] = Unread[f]}

\* what the caller of getTransferSettings writes into the record it got
ChangedValues == [partSizeMB |-> 101, concurrentThreads |-> 0,
                  maxBandwidthKBps |-> -1, verifyChecksum |-> TRUE]

\* settings = { ...settings, ...s }
SetTransferSettings(st, p) ==
    [f \in DOMAIN st |-> IF f \in p.present THEN p.value[f] ELSE st[f]]

\* mutant: getTransferSettings handing out the settings object itself
GetTransferSettingsAlias(st) == [alias |-> TRUE, value |-> st]

\* return { ...settings }: a new object with the same field values.  alias
\* tells whether the record handed out is the object the engine's settings
\* variable refers to.
GetTransferSettings(st) == [alias |-> FALSE, value |-> st]

\* the checks of the settings:set handler (ipc-handlers.ts lines 203-211)
AcceptedBySetSettings(p) ==
    /\ "partSizeMB" \in p.present
            => ~(\/ "partSizeMB" \in p.mistyped
                 \/ p.value.partSizeMB < 5 \/ p.value.partSizeMB > 100)
    /\ "concurrentThreads" \in p.present
            => ~(\/ "concurrentThreads" \in p.mistyped
                 \/ p.value.concurrentThreads < 1 \/ p.value.concurrentThreads > 100)
    /\ "maxBandwidthKBps" \in p.present
            => ~("maxBandwidthKBps" \in p.mistyped \/ p.value.maxBandwidthKBps < 0)

EngineUnchanged ==
    UNCHANGED <<queue, jobs, activeCount, abortControllers, lastEmitTime, progressCallback,
                jobIdCounter, execs, runCounter, calls, now, lastNT, cancelledPending,
                cancelledActive, disturbed, launchedWith, rename>>

\* mutant: the settings:set handler storing the fields that pass their own
\* check before it throws for the one that does not
SetSettingsPartly(P) ==
    \E p \in P :
        LET passing == {f \in p.present :
                          AcceptedBySetSettings([p EXCEPT !.present = {f}])}
        IN  /\ settings' = SetTransferSettings(settings, [p EXCEPT !.present = passing])
            /\ returned' = [returned EXCEPT !.alias = FALSE]
            /\ lastOp' = [Op("setSettings", NoJob,
                             IF AcceptedBySetSettings(p) THEN "accepted" ELSE "rejected")
                             EXCEPT !.s = p]
            /\ delivered' = <<>>
            /\ batch' = 0
            /\ EngineUnchanged

\* the settings:set handler called with one of the partials P: it throws on a
\* value out of range and calls setTransferSettings otherwise.  The assignment
\* makes a new object the engine's settings, so a record handed out before is
\* not that object any more.
SetSettings(P) ==
    \E p \in P :
        /\ settings' = IF AcceptedBySetSettings(p) THEN SetTransferSettings(settings, p)
                       ELSE settings
        /\ returned' = IF AcceptedBySetSettings(p) THEN [returned EXCEPT !.alias = FALSE]
                       ELSE returned
        /\ lastOp' = [Op("setSettings", NoJob,
                         IF AcceptedBySetSettings(p) THEN "accepted" ELSE "rejected")
                         EXCEPT !.s = p]
        /\ delivered' = <<>>
        /\ batch' = 0
        /\ EngineUnchanged

\* the settings:get handler
GetSettings ==
    /\ returned' = GetTransferSettings(settings)
    /\ lastOp' = Op("getSettings", NoJob, "none")
    /\ delivered' = <<>>
    /\ batch' = 0
    /\ UNCHANGED settings
    /\ EngineUnchanged

\* the caller of getTransferSettings assigns to the fields of the record it got
ChangeReturned ==
    /\ returned # NoReturn
    /\ returned.value # ChangedValues
    /\ returned' = [returned EXCEPT !.value = ChangedValues]
    /\ settings' = IF returned.alias THEN ChangedValues ELSE settings
    /\ lastOp' = Op("changeReturned", NoJob, "none")
    /\ delivered' = <<>>
    /\ batch' = 0
    /\ EngineUnchanged

\* time passes
Tick ==
    /\ now < StartTime + MaxTicks * TickMs
    /\ now' = now + TickMs
    /\ delivered' = <<>>
    /\ lastOp' = Op("tick", NoJob, "none")
    /\ UNCHANGED <<settings, queue, jobs, activeCount, abortControllers, lastEmitTime,
                   progressCallback, jobIdCounter, execs, runCounter, calls,
                   lastNT, cancelledPending, cancelledActive, disturbed, batch,
                   launchedWith, returned, rename>>

DefaultSettings == [partSizeMB |-> 10, concurrentThreads |-> 4,
                    maxBandwidthKBps |-> 0, verifyChecksum |-> FALSE]

\* The module's initial values, once registerIpcHandlers has run: the handlers
\* that call the engine are registered together with the progress callback, and
\* the concurrency budget is one that settings:set accepts.
InitEngine ==
    /\ queue = <<>>
    /\ jobs = <<>>
    /\ activeCount = 0
    /\ abortControllers = EmptyMap
    /\ lastEmitTime = EmptyMap
    /\ progressCallback = TRUE
    /\ jobIdCounter = 0
    /\ execs = {}
    /\ runCounter = 0
    /\ calls = 0
    /\ now = StartTime
    /\ delivered = <<>>
    /\ lastOp = Op("init", NoJob, "none")
    /\ lastNT = EmptyMap
    /\ cancelledPending = {}
    /\ cancelledActive = {}
    /\ disturbed = {}
    /\ batch = 0
    /\ launchedWith = EmptyMap
    /\ returned = NoReturn

Init ==
    /\ settings \in {[DefaultSettings EXCEPT !.concurrentThreads = n] : n \in ThreadChoices}
    /\ InitEngine
    /\ rename = NoRename

\* the module's initial values as written (lines 10-21), callback bound
InitDefault == settings = DefaultSettings /\ InitEngine /\ rename = NoRename

\* the engine untouched, any set of the keys in the bucket, no renameObject yet
InitRename ==
    /\ settings = DefaultSettings
    /\ InitEngine
    /\ rename \in {[NoRename EXCEPT !.objects = o, !.had = o] : o \in SUBSET Keys}

\* the calls of the boundary layer and the events of the executors, within bounds B
Step(B) ==
    \/ EnqueueUpload(B)
    \/ EnqueueDownload(B)
    \/ CancelTransfer(B)
    \/ PauseTransfer(B)
    \/ ResumeTransfer(B)
    \/ RegionResolved(B)
    \/ SendResolved(B)
    \/ ExecProgress(B)
    \/ ExecSuccess(B)
    \/ ExecError(B)

CoreBounds == [jobs |-> MaxJobs, runs |-> MaxRuns, calls |-> MaxCalls,
               chunks |-> ChunkSizes, bytes |-> ByteCounts, messages |-> Messages]
LiteBounds == [jobs |-> LiteJobs, runs |-> LiteRuns, calls |-> LiteCalls,
               chunks |-> ChunkSizes, bytes |-> ByteCounts, messages |-> Messages]
ClockBounds == [jobs |-> ClockJobs, runs |-> ClockRuns, calls |-> ClockCalls,
                chunks |-> ChunkSizes, bytes |-> ByteCounts, messages |-> Messages]

Next == Step(CoreBounds)
Spec == Init /\ [][Next]_vars

NextLite == Step(LiteBounds)
SpecLite == Init /\ [][NextLite]_vars

NextClock == Step(ClockBounds) \/ Tick
SpecClock == Init /\ [][NextClock]_vars

TimeBounds == [jobs |-> TimeJobs, runs |-> TimeRuns, calls |-> TimeCalls,
               chunks |-> ChunkSizes, bytes |-> ByteCounts, messages |-> Messages]
NextTime == Step(TimeBounds) \/ Tick
SpecTime == Init /\ [][NextTime]_vars

\* SpecLite under the scheduling the runtime gives: a region lookup resolves,
\* and a request or a stream that can still finish or fail does one of the two
Settle ==
    \/ RegionResolved(LiteBounds)
    \/ SendResolved(LiteBounds)
    \/ ExecSuccess(LiteBounds)
    \/ ExecError(LiteBounds)
SpecLive == SpecLite /\ WF_vars(Settle)

\* the engine when the boundary layer only enqueues
IdBounds == [jobs |-> IdJobs, runs |-> IdRuns, calls |-> 0,
             chunks |-> ChunkSizes, bytes |-> ByteCounts, messages |-> Messages]
NextIds ==
    \/ EnqueueUpload(IdBounds)
    \/ EnqueueDownload(IdBounds)
    \/ RegionResolved(IdBounds)
    \/ SendResolved(IdBounds)
    \/ ExecProgress(IdBounds)
    \/ ExecSuccess(IdBounds)
    \/ ExecError(IdBounds)
SpecIds == Init /\ [][NextIds]_vars

\* renameObject on its own
NextRename == RenameObject \/ CopySettled \/ DeleteSettled
SpecRename == InitRename /\ [][NextRename]_vars

\* the engine with transfer:download-files requests
NextBatch == Step(LiteBounds) \/ DownloadFiles(LiteBounds)
SpecBatch == Init /\ [][NextBatch]_vars

\* the settings handlers on their own
NextSettings == SetSettings(Partials) \/ GetSettings \/ ChangeReturned
SpecSettings == InitDefault /\ [][NextSettings]_vars

\* the engine with settings updates arriving between its steps
RetunePartials ==
    {p \in Partials : /\ Cardinality(p.present) = 1
                      /\ AcceptedBySetSettings(p)
                      /\ p.present \subseteq {"partSizeMB", "concurrentThreads"}
                      /\ p.value.partSizeMB < 100 /\ p.value.concurrentThreads < 100}
RetuneBounds == [jobs |-> RetuneJobs, runs |-> RetuneRuns, calls |-> RetuneCalls,
                 chunks |-> ChunkSizes, bytes |-> ByteCounts, messages |-> Messages]
NextRetune == Step(RetuneBounds) \/ SetSettings(RetunePartials)
SpecRetune == InitDefault /\ [][NextRetune]_vars

\* the engine when the boundary layer enqueues uploads only (client.send is
\* the download executor's await)
StepUpload(B) ==
    \/ EnqueueUpload(B)
    \/ CancelTransfer(B)
    \/ PauseTransfer(B)
    \/ ResumeTransfer(B)
    \/ RegionResolved(B)
    \/ ExecProgress(B)
    \/ ExecSuccess(B)
    \/ ExecError(B)

UploadBounds == [jobs |-> UpJobs, runs |-> UpRuns, calls |-> UpCalls,
                 chunks |-> ChunkSizes, bytes |-> ByteCounts, messages |-> Messages]
NextUpload == StepUpload(UploadBounds)
SpecUpload == Init /\ [][NextUpload]_vars

\* the engine, enqueueing uploads only, with clearCompleted
ClearBounds == [jobs |-> ClearJobs, runs |-> ClearRuns, calls |-> ClearCalls,
                chunks |-> ChunkSizes, bytes |-> ByteCounts, messages |-> Messages]
NextClear == StepUpload(ClearBounds) \/ ClearCompleted(ClearBounds)
SpecClear == Init /\ [][NextClear]_vars

StreamBounds == [jobs |-> StreamJobs, runs |-> StreamRuns, calls |-> StreamCalls,
                 chunks |-> StreamChunkSizes, bytes |-> StreamByteCounts,
                 messages |-> StreamMessages]
NextStream == Step(StreamBounds)
SpecStream == Init /\ [][NextStream]_vars

\* pruneQueue on its own.  It reads the queue and the statuses only; the queue
\* it meets holds any mix of statuses, except that of the completed and failed
\* jobs at most MAX_HISTORY_SIZE were left by the pass before and one is new.
Statuses == {"pending", "active", "paused"} \cup Terminal

InitPrune ==
    /\ \E n \in 0..PruneLen : \E st \in [1..n -> Statuses] :
        /\ Cardinality({i \in 1..n : st[i] \in {"completed", "failed"}}) <= MAX_HISTORY_SIZE + 1
        /\ jobs = [i \in 1..n |->
                     [NewJob(GenerateId(StartTime, i), "upload", 1) EXCEPT !.status = st[i]]]
        /\ queue = [i \in 1..n |-> i]
        /\ jobIdCounter = n
    /\ settings \in {[DefaultSettings EXCEPT !.concurrentThreads = n] : n \in ThreadChoices}
    /\ activeCount = 0
    /\ abortControllers = EmptyMap
    /\ lastEmitTime = EmptyMap
    /\ progressCallback = TRUE
    /\ execs = {}
    /\ runCounter = 0
    /\ calls = 0
    /\ now = StartTime
    /\ delivered = <<>>
    /\ lastOp = Op("init", NoJob, "none")
    /\ lastNT = EmptyMap
    /\ cancelledPending = {}
    /\ cancelledActive = {}
    /\ disturbed = {}
    /\ batch = 0
    /\ launchedWith = EmptyMap
    /\ returned = NoReturn
    /\ rename = NoRename

PruneBounds == [jobs |-> PruneLen, runs |-> 0, calls |-> 0,
                chunks |-> ChunkSizes, bytes |-> ByteCounts, messages |-> Messages]
PrunePass == Commit(PruneQueue(Eng), Op("pruneQueue", NoJob, "none"), PruneBounds)

NextPrune == PrunePass
SpecPrune == InitPrune /\ [][NextPrune]_vars

\* ================================================================ claims
Created == 1..Len(jobs)
ActiveJobs == {i \in 1..Len(queue) : jobs[queue[i]].status = "active"}

\* C1: with concurrentThreads fixed at N, the number of jobs whose status is
\* active never exceeds N.
C1_ActiveWithinBudget == Cardinality(ActiveJobs) <= settings.concurrentThreads

\* C2: completed, failed and cancelled are absorbing: no later call and no later
\* executor event changes a terminal status to another value.
C2_TerminalAbsorbing ==
    [][\A h \in Created : IsTerminal(jobs[h].status) => jobs'[h].status = jobs[h].status]_vars

\* C3: a job is pending when enqueue appends it (the first snapshot of the
\* enqueue step shows it), and a job that is not cancelled reaches exactly one
\* of completed / failed, once: having reached one, it stays there.
C3_PendingThenOneOutcome ==
    [][/\ lastOp'.op \in {"enqueueUpload", "enqueueDownload"} /\ Len(jobs') > Len(jobs)
            => /\ Len(delivered') >= 1
               /\ delivered'[1].id = jobs'[Len(jobs')].id
               /\ delivered'[1].status = "pending"
       /\ \A h \in Created :
            jobs[h].status \in {"completed", "failed"} /\ jobs'[h].status # "cancelled"
                => jobs'[h].status = jobs[h].status]_vars

\* C4: pauseTransfer on an active job makes it paused, and it stays paused, with
\* no error, until a resumeTransfer or cancelTransfer for that job is applied.
C4_PausedUntilResumeOrCancel ==
    [][/\ lastOp'.op = "pauseTransfer" /\ lastOp'.from = "active"
            => jobs'[lastOp'.job].status = "paused"
       /\ \A h \in Created :
            /\ jobs[h].status = "paused"
            /\ ~(lastOp'.op \in {"resumeTransfer", "cancelTransfer"} /\ lastOp'.job = h)
            => jobs'[h].status = "paused" /\ jobs'[h].error = ""]_vars

\* C5: the active counter is never negative and is 0 when no executor is running.
C5_CounterTracksSlots == activeCount >= 0 /\ (execs = {} => activeCount = 0)

\* C6: resumeTransfer on a paused job makes it pending with transferred 0, and
\* transferred is 0 at the moment a job becomes active.
C6_ResumeRestartsFromZero ==
    [][/\ lastOp'.op = "resumeTransfer" /\ lastOp'.from = "paused"
            => /\ jobs'[lastOp'.job].transferred = 0
               /\ jobs'[lastOp'.job].status \in {"pending", "active"}
       /\ \A h \in Created :
            jobs[h].status # "active" /\ jobs'[h].status = "active"
                => jobs'[h].transferred = 0]_vars

\* C8: the number of jobs in the queue with a terminal status never exceeds
\* MAX_HISTORY_SIZE.
C8_HistoryWithinCeiling == TerminalCount(queue, jobs) <= MAX_HISTORY_SIZE

\* the runs of job h in execs' were already in execs: the step launched none for h
NoLaunchFor(h) == \A r \in execs' : r.job = h => \E x \in execs : x.rid = r.rid

\* C7: cancelTransfer on a pending job makes it cancelled without launching an
\* executor for it, and from then on it stays cancelled (never active) and no
\* executor is launched for it.
C7_CancelPendingNeverRuns ==
    [][/\ \A h \in Created :
            lastOp'.op = "cancelTransfer" /\ lastOp'.job = h /\ jobs[h].status = "pending"
                => jobs'[h].status = "cancelled" /\ NoLaunchFor(h)
       /\ \A h \in cancelledPending :
            /\ jobs[h].status = "cancelled"
            /\ jobs'[h].status = "cancelled"
            /\ NoLaunchFor(h)]_vars

SettleOps == {"execSuccess", "execError", "sendResolved"}

\* C7 witness: a job cancelled while pending is still in the queue, cancelled
\* and without an executor, after an executor's completion ran the dispatcher
\* with the slot free.
W7_DispatcherPassedOverCancelled ==
    \E h \in cancelledPending : \E i \in 1..Len(queue) :
        /\ queue[i] = h /\ jobs[h].status = "cancelled"
        /\ lastOp.op \in SettleOps /\ lastOp.job # h
        /\ activeCount < settings.concurrentThreads
        /\ \A r \in execs : r.job # h

\* What a pruning pass over queue q with job objects js must leave: the
\* positions of q without the lowest (terminal count - ceiling) terminal ones.
TerminalPositions(q, js) == {i \in 1..Len(q) : IsTerminal(js[q[i]].status)}
Excess(q, js) ==
    IF Cardinality(TerminalPositions(q, js)) > MAX_HISTORY_SIZE
    THEN Cardinality(TerminalPositions(q, js)) - MAX_HISTORY_SIZE ELSE 0
EvictedPositions(q, js) ==
    {i \in TerminalPositions(q, js) :
        Cardinality({j \in TerminalPositions(q, js) : j <= i}) <= Excess(q, js)}
KeptPositions(q, js) == (1..Len(q)) \ EvictedPositions(q, js)
NthKept(q, js, n) ==
    CHOOSE i \in KeptPositions(q, js) :
        Cardinality({j \in KeptPositions(q, js) : j <= i}) = n

\* C9: a pruning pass (pruneQueue on its own, or the pass that runs whenever
\* an executor's promise settles) removes
\* terminal jobs only, exactly (terminal count - ceiling) of them when the
\* ceiling is exceeded and none otherwise, those at the lowest queue positions,
\* and keeps all other jobs in their order.  The statuses the pass sees are
\* those of jobs': the dispatch that follows the pass touches pending jobs only.
C9_PruneEvictsOldestTerminal ==
    [][(lastOp'.op = "pruneQueue" \/ \E r \in execs : \A x \in execs' : x.rid # r.rid)
        => /\ Len(queue') = Cardinality(KeptPositions(queue, jobs'))
           /\ \A n \in 1..Len(queue') : queue'[n] = queue[NthKept(queue, jobs', n)]
           /\ \A i \in 1..Len(queue) :
                ~IsTerminal(jobs'[queue[i]].status) => \E n \in 1..Len(queue') : queue'[n] = queue[i]
           /\ Len(queue) - Len(queue') = Excess(queue, jobs')]_vars

\* C9 witness: a pruning pass has just evicted a job, and a non-terminal job
\* stays in the queue ahead of a terminal one that stays too.
W9_PrunedWithSurvivors ==
    /\ lastOp.pruned >= 1
    /\ \E i, k \in 1..Len(queue) :
        i < k /\ ~IsTerminal(jobs[queue[i]].status) /\ IsTerminal(jobs[queue[k]].status)

\* C10: for one job id, two snapshots with a non-terminal status are never
\* delivered less than 100 ms apart.
C10_NonTerminalRateLimited ==
    [][\A k \in 1..Len(delivered') :
        ~IsTerminal(delivered'[k].status)
            => /\ delivered'[k].id \in DOMAIN lastNT
                    => now' - lastNT[delivered'[k].id] >= MinEmitGapMs
               /\ \A m \in 1..(k - 1) :
                    delivered'[m].id = delivered'[k].id => IsTerminal(delivered'[m].status)]_vars

\* C10 witness: a job whose pending snapshot was delivered when it was enqueued
\* (its id carries that time) gets a later non-terminal snapshot delivered.
W10_SecondNonTerminalSnapshot ==
    \E k \in 1..Len(delivered) :
        /\ delivered[k].status \in {"active", "paused"}
        /\ delivered[k].id \in DOMAIN lastNT
        /\ delivered[k].id[1] + MinEmitGapMs <= now

\* the job objects created so far that carry id
JobsWithId(id) == {h \in Created : jobs[h].id = id}

\* C11: a job that reaches a terminal status has a terminal snapshot delivered
\* in the step of the transition, and only one terminal snapshot is ever
\* delivered for its id: none for a job that was terminal already, and not two
\* in one step.
C11_TerminalSnapshotExactlyOnce ==
    [][/\ \A h \in Created :
            ~IsTerminal(jobs[h].status) /\ IsTerminal(jobs'[h].status)
                => \E k \in 1..Len(delivered') :
                      delivered'[k].id = jobs[h].id /\ IsTerminal(delivered'[k].status)
       /\ \A k \in 1..Len(delivered') :
            IsTerminal(delivered'[k].status)
                => /\ \A h \in JobsWithId(delivered'[k].id) : ~IsTerminal(jobs[h].status)
                   /\ \A m \in 1..(k - 1) :
                        delivered'[m].id = delivered'[k].id => ~IsTerminal(delivered'[m].status)]_vars

\* the last b jobs of queue q: the first min(b, n) of them active, the others pending
BatchShape(q, js, b, n) ==
    \A j \in 1..b :
        js[q[Len(q) - b + j]].status = IF j <= Min(b, n) THEN "active" ELSE "pending"

\* C12: k jobs enqueued back to back on an idle engine with budget N leave the
\* first min(k, N) of them active and the others pending; and when the executor
\* of an active job finishes while a job is pending, the pending job at the
\* lowest queue position is active after that step.
C12_BatchFillsBudget ==
    [][/\ batch' > 0 => BatchShape(queue', jobs', batch', settings.concurrentThreads)
       /\ \A r \in execs :
            /\ \A x \in execs' : x.rid # r.rid
            /\ jobs[r.job].status = "active"
            /\ FirstPending(Eng) # NoJob
            => jobs'[FirstPending(Eng)].status = "active"]_vars

\* C13: for a download that was never paused nor cancelled, every chunk adds
\* its length to transferred (which starts at 0 and changes in no other step),
\* so that transferred after the i-th chunk is c1 + ... + ci; and when the
\* stream finishes the job is completed with transferred at that total.
C13_DownloadCountsChunks ==
    [][/\ \A h \in (1..Len(jobs')) \ Created : jobs'[h].transferred = 0
       /\ \A h \in Created :
            jobs[h].direction = "download" /\ h \notin disturbed'
            => /\ jobs'[h].transferred =
                    jobs[h].transferred
                    + (IF lastOp'.op = "execProgress" /\ lastOp'.job = h THEN lastOp'.n ELSE 0)
               /\ lastOp'.op = "execSuccess" /\ lastOp'.job = h
                    => jobs'[h].status = "completed"]_vars

\* C13 witness: a download that was never paused nor cancelled has just been
\* completed with the bytes of more than one chunk.
W13_CompletedAfterTwoChunks ==
    \E h \in Created :
        /\ jobs[h].direction = "download" /\ h \notin disturbed
        /\ lastOp.op = "execSuccess" /\ lastOp.job = h
        /\ jobs[h].status = "completed"
        /\ \A n \in StreamChunkSizes : jobs[h].transferred > n

\* C14: cancelTransfer on an active job makes it cancelled with no error, and
\* in no later step is the status or the error changed or a snapshot with that
\* job's id delivered.
C14_NothingAfterCancelOfActive ==
    [][\A h \in Created :
        /\ lastOp'.op = "cancelTransfer" /\ lastOp'.job = h /\ jobs[h].status = "active"
            => jobs'[h].status = "cancelled" /\ jobs'[h].error = ""
        /\ h \in cancelledActive
            => /\ jobs'[h].status = "cancelled" /\ jobs'[h].error = ""
               /\ \A k \in 1..Len(delivered') : delivered'[k].id # jobs[h].id]_vars

\* C15: cancelTransfer on a job that is cancelled already changes neither the
\* queue, nor a job field, nor the active counter, nor the abort handles, and
\* delivers no snapshot.
C15_CancelIdempotent ==
    [][lastOp'.op = "cancelTransfer" /\ lastOp'.from = "cancelled"
        => /\ queue' = queue /\ jobs' = jobs /\ activeCount' = activeCount
           /\ abortControllers' = abortControllers
           /\ delivered' = <<>>]_vars

\* the source statuses the three transitions start from; "none" is the status
\* recorded for an id that is not in the queue
ValidSource(op) ==
    CASE op = "pauseTransfer" -> {"active"}
      [] op = "resumeTransfer" -> {"paused"}
      [] op = "cancelTransfer" -> {"pending", "active", "paused"}
      [] OTHER -> {}

\* C16: pauseTransfer, resumeTransfer and cancelTransfer applied to an id that
\* is not in the queue, or to a job that is not in a source status of the
\* transition, change no job field, no queue membership, not the active
\* counter, no abort handle, and deliver no snapshot.
C16_InvalidSourceChangesNothing ==
    [][lastOp'.op \in ControlOps /\ lastOp'.from \notin ValidSource(lastOp'.op)
        => /\ queue' = queue /\ jobs' = jobs /\ activeCount' = activeCount
           /\ abortControllers' = abortControllers /\ execs' = execs
           /\ delivered' = <<>>]_vars

\* C17: no two executor runs that have not settled belong to the same job.
C17_OneExecutorPerJob ==
    \A r1, r2 \in execs : r1.job = r2.job => r1.rid = r2.rid

\* the jobs for which the step launched an executor, i.e. the jobs it promoted
Launched == {r.job : r \in {x \in execs' : x.rid > runCounter}}

\* C18: every job the dispatcher promotes in a step stands in the queue ahead
\* of every job the step leaves pending, and resumeTransfer leaves the queue
\* order as it is: the resumed job competes from its original position.
C18_DispatchFifo ==
    [][/\ \A i, j \in 1..Len(queue') :
            queue'[j] \in Launched /\ jobs'[queue'[i]].status = "pending" => j < i
       /\ lastOp'.op = "resumeTransfer" => queue' = queue]_vars

\* C18 witness: a resumed job has just been promoted from its original queue
\* position while a job enqueued after it is left pending.
W18_ResumedAheadOfLaterJob ==
    /\ lastOp.op = "resumeTransfer" /\ lastOp.from = "paused"
    /\ \E i, k \in 1..Len(queue) :
        /\ i < k /\ queue[i] = lastOp.job
        /\ jobs[queue[i]].status = "active"
        /\ jobs[queue[k]].status = "pending"

\* C19: for every job in the queue, error is set exactly when the status is failed.
C19_ErrorIffFailed ==
    \A i \in 1..Len(queue) :
        (jobs[queue[i]].error # "") <=> (jobs[queue[i]].status = "failed")

\* C20: startedAt and completedAt are written once: a value either of them has
\* (0 stands for the absent field) is kept by every later step.
C20_TimestampsWrittenOnce ==
    [][\A h \in Created :
        /\ jobs[h].startedAt # 0 => jobs'[h].startedAt = jobs[h].startedAt
        /\ jobs[h].completedAt # 0 => jobs'[h].completedAt = jobs[h].completedAt]_vars

\* C21: a job whose status is completed, upload or download, has transferred
\* equal to fileSize and completedAt set (0 stands for the absent field).
C21_CompletedHasAllBytes ==
    \A h \in Created :
        jobs[h].status = "completed"
            => jobs[h].transferred = jobs[h].fileSize /\ jobs[h].completedAt # 0

\* C22: every job has 0 <= transferred <= fileSize, fileSize being the value
\* fixed when the job was enqueued, whatever sizes the progress events and
\* chunks have.
C22_TransferredWithinSize ==
    \A h \in Created : 0 <= jobs[h].transferred /\ jobs[h].transferred <= jobs[h].fileSize

\* C23: an accepted settings update replaces exactly the fields its partial
\* has and keeps the others; getTransferSettings hands out the current values
\* and leaves them as they are; and a caller changing the record it was handed
\* does not change the engine's settings.
C23_SettingsMergeAndCopy ==
    [][/\ lastOp'.op = "setSettings" /\ lastOp'.from = "accepted"
            => \A f \in SettingsFields :
                  settings'[f] = IF f \in lastOp'.s.present THEN lastOp'.s.value[f]
                                 ELSE settings[f]
       /\ lastOp'.op = "getSettings"
            => returned'.value = settings /\ settings' = settings
       /\ lastOp'.op = "changeReturned" => settings' = settings]_vars

\* C23 witness: the caller has just changed the record it was handed, which
\* now differs from the engine's settings, and those are the merge of two
\* earlier updates (not the defaults, and not one partial's values alone).
W23_ReturnedChangedAlone ==
    /\ lastOp.op = "changeReturned"
    /\ returned.value # settings
    /\ settings.partSizeMB # DefaultSettings.partSizeMB
    /\ settings.concurrentThreads # DefaultSettings.concurrentThreads
    /\ settings.verifyChecksum = DefaultSettings.verifyChecksum

\* C24: whatever updates were submitted through settings:set, the engine's
\* settings have partSizeMB in 5..100, concurrentThreads in 2..100 and
\* maxBandwidthKBps >= 0.
C24_SettingsWithinRanges ==
    /\ settings.partSizeMB >= 5 /\ settings.partSizeMB <= 100
    /\ settings.concurrentThreads >= 2 /\ settings.concurrentThreads <= 100
    /\ settings.maxBandwidthKBps >= 0

\* C25: the part size and the part-level concurrency an upload runs with are
\* those of the settings in force when the dispatcher promoted the job.
C25_UploadUsesSettingsAtPromotion ==
    \A r \in execs :
        r.pc = "xfer" /\ jobs[r.job].direction = "upload"
            => /\ r.partSizeMB = launchedWith[r.rid].partSizeMB
               /\ r.queueSize = Min(launchedWith[r.rid].concurrentThreads, 4)

\* C26: in no state (between two operations of the engine) is a job pending
\* while fewer jobs than concurrentThreads are active.
C26_WorkConserving ==
    (\E i \in 1..Len(queue) : jobs[queue[i]].status = "pending")
        => Cardinality(ActiveJobs) >= settings.concurrentThreads

\* C27: every run of an executor ends (its slot is released and the dispatcher
\* runs again): whenever executors are running, a state with none running
\* follows; and whenever a job is pending, a state with none pending follows.
Running == execs # {}
Waiting == \E h \in Created : jobs[h].status = "pending"
C27_SlotsReleased == (Running ~> ~Running) /\ (Waiting ~> ~Waiting)

\* C28: cancelTransfer or pauseTransfer of an active job leaves every run of
\* that job's executor with its abort signal triggered, and no upload whose
\* job is cancelled goes on to finish the remote write.
C28_CancelAlwaysAborts ==
    [][/\ lastOp'.op \in {"cancelTransfer", "pauseTransfer"} /\ lastOp'.from = "active"
            => \A r \in execs' : r.job = lastOp'.job => r.aborted
       /\ lastOp'.op = "execSuccess" /\ jobs'[lastOp'.job].direction = "upload"
            => lastOp'.from # "cancelled"]_vars

\* the step is an executor's catch block running for the job of lastOp': its
\* awaited operation rejected, or GetObject answered without a body
ErrorObserved ==
    \/ lastOp'.op = "execError"
    \/ /\ lastOp'.op = "sendResolved"
       /\ \E r \in execs : /\ r.job = lastOp'.job /\ r.pc = "send"
                           /\ \A r2 \in execs' : r2.rid # r.rid

\* C29: when an executor observes an error, a job that is not cancelled becomes
\* failed with a non-empty error message and its failed snapshot is delivered;
\* a job that is cancelled keeps every field and no snapshot of it is delivered.
C29_ErrorFailsUnlessCancelled ==
    [][ErrorObserved =>
        LET h == lastOp'.job
        IN  IF jobs[h].status # "cancelled"
            THEN /\ jobs'[h].status = "failed"
                 /\ jobs'[h].error # ""
                 /\ \E k \in 1..Len(delivered') :
                        delivered'[k].id = jobs[h].id /\ delivered'[k].status = "failed"
            ELSE /\ jobs'[h] = jobs[h]
                 /\ \A k \in 1..Len(delivered') : delivered'[k].id # jobs[h].id]_vars

\* C29 witness: the operation of a cancelled job has just rejected; the job is
\* still cancelled, without an error message, and nothing was delivered.
W29_ErrorAfterCancel ==
    /\ lastOp.op = "execError"
    /\ lastOp.from = "cancelled"
    /\ jobs[lastOp.job].status = "cancelled"
    /\ jobs[lastOp.job].error = ""
    /\ delivered = <<>>

\* the step created job h or left it with another status than it had
StatusChanged(h) == h > Len(jobs) \/ jobs'[h].status # jobs[h].status

\* the step delivered a snapshot of job h carrying its new status
NewStatusDelivered(h) ==
    \E k \in 1..Len(delivered') :
        delivered'[k].id = jobs'[h].id /\ delivered'[k].status = jobs'[h].status

\* C30: every step that changes a job's status delivers a snapshot of the job
\* carrying the new status.
C30_EveryStatusChangeDelivered ==
    [][\A h \in 1..Len(jobs') : StatusChanged(h) => NewStatusDelivered(h)]_vars

\* C30 as amended: every step that changes a job's status delivers a snapshot
\* carrying the new status, unless the new status is not terminal and a
\* snapshot of that job id was delivered less than MinEmitGapMs before.
C30_StatusChangeDeliveredOrLimited ==
    [][\A h \in 1..Len(jobs') :
        StatusChanged(h)
            => \/ NewStatusDelivered(h)
               \/ /\ ~IsTerminal(jobs'[h].status)
                  /\ jobs'[h].id \in DOMAIN lastEmitTime'
                  /\ now' - lastEmitTime'[jobs'[h].id] < MinEmitGapMs]_vars

\* C30 witness: an active job was paused MinEmitGapMs or more after its last
\* snapshot, and the paused snapshot was delivered.
W30_PausedSnapshotDelivered ==
    /\ lastOp.op = "pauseTransfer"
    /\ lastOp.from = "active"
    /\ \E k \in 1..Len(delivered) :
          delivered[k].id = jobs[lastOp.job].id /\ delivered[k].status = "paused"

\* C31: after a step that delivered a terminal snapshot of a job as its last
\* snapshot of that job, lastEmitTime holds no entry for the job's id.
C31_TerminalEmissionClearsTimestamp ==
    [][\A k \in 1..Len(delivered') :
        /\ IsTerminal(delivered'[k].status)
        /\ \A m \in (k + 1)..Len(delivered') : delivered'[m].id # delivered'[k].id
        => delivered'[k].id \notin DOMAIN lastEmitTime']_vars

\* the latest run launched for its job that has not settled
CurrentRun(r) == \A r2 \in execs : r2.job = r.job => r2.rid <= r.rid

\* C32: the abort handle stored under a job id is the one of the executor
\* currently running that job, and the executor running an active job past its
\* registration, its signal not triggered, has its handle stored under the id.
C32_HandleOfCurrentExecutor ==
    /\ \A id \in DOMAIN abortControllers :
          \E r \in execs : /\ r.rid = abortControllers[id]
                           /\ jobs[r.job].id = id
                           /\ CurrentRun(r)
    /\ \A r \in execs :
          /\ r.pc \in {"send", "xfer"}
          /\ ~r.aborted
          /\ jobs[r.job].status = "active"
          /\ CurrentRun(r)
          => /\ jobs[r.job].id \in DOMAIN abortControllers
             /\ abortControllers[jobs[r.job].id] = r.rid

\* C33: the ids of the jobs ever created, as the strings generateId builds,
\* are pairwise distinct.
C33_IdsPairwiseDistinct ==
    \A h1, h2 \in Created : h1 # h2 => IdText(jobs[h1].id) # IdText(jobs[h2].id)

\* C33 witness: a job has just been enqueued in the same millisecond as the
\* job before it, after the first job was pruned from the queue.
W33_EnqueuedAfterPrune ==
    /\ lastOp.op \in EnqueueOps
    /\ lastOp.job > 2
    /\ jobs[lastOp.job].id[1] = jobs[lastOp.job - 1].id[1]
    /\ \A i \in 1..Len(queue) : queue[i] # 1

\* C34: a settings:set request that is rejected leaves every settings field as
\* it was.
C34_RejectedUpdateChangesNothing ==
    [][lastOp'.op = "setSettings" /\ lastOp'.from = "rejected" => settings' = settings]_vars

\* C34 witness: a request was rejected for a field that is not a number while
\* it also carried a field that passes its check and differs from the setting.
W34_RejectedWithValidField ==
    /\ lastOp.op = "setSettings"
    /\ lastOp.from = "rejected"
    /\ lastOp.s.mistyped # {}
    /\ \E f \in lastOp.s.present :
          /\ AcceptedBySetSettings([lastOp.s EXCEPT !.present = {f}])
          /\ lastOp.s.value[f] # settings[f]

\* C35: a transfer:download-files request that fails creates no job and leaves
\* the queue and the active counter as they were.
C35_FailedRequestEnqueuesNothing ==
    [][lastOp'.op = "downloadFiles" /\ lastOp'.from = "rejected"
        => jobs' = jobs /\ queue' = queue /\ activeCount' = activeCount]_vars

NotTerminalInQueue(h) == ~IsTerminal(jobs[h].status)

\* C36: clearCompleted leaves in the queue exactly the jobs that are pending,
\* active or paused, in the order they had, and changes no job, neither the
\* active counter, nor an abort handle, nor a running executor.
C36_ClearRemovesTerminalOnly ==
    [][lastOp'.op = "clearCompleted"
        => /\ queue' = SelectSeq(queue, NotTerminalInQueue)
           /\ jobs' = jobs
           /\ activeCount' = activeCount
           /\ abortControllers' = abortControllers
           /\ execs' = execs]_vars

\* C36 witness: clearCompleted has just removed a cancelled job whose executor
\* is still running and kept a job that is not terminal.
W36_ClearedWhileExecutorRuns ==
    /\ lastOp.op = "clearCompleted"
    /\ lastOp.pruned > 0
    /\ Len(queue) > 0
    /\ \E r \in execs : /\ jobs[r.job].status = "cancelled"
                        /\ \A i \in 1..Len(queue) : queue[i] # r.job

\* C37: renameObject sends the delete of the old key only after its copy has
\* succeeded; when the copy fails nothing is deleted and an old object that
\* was present still is; when oldKey = newKey it sends no command at all.
C37_DeleteOnlyAfterCopy ==
    LET sentDelete == \E i \in 1..Len(rename.issued) : rename.issued[i] = "delete"
    IN  /\ sentDelete => rename.copied /\ rename.issued = <<"copy", "delete">>
        /\ rename.pc = "failed" /\ ~rename.copied
              => /\ ~sentDelete
                 /\ rename.oldKey \in rename.had => rename.oldKey \in rename.objects
        /\ rename.pc # "idle" /\ rename.oldKey = rename.newKey
              => rename.issued = <<>> /\ rename.objects = rename.had

\* C37 witness: the copy of an object that is present has failed, and the call
\* has ended without sending the delete.
W37_CopyFailed ==
    /\ rename.pc = "failed"
    /\ ~rename.copied
    /\ rename.oldKey # rename.newKey
    /\ rename.oldKey \in rename.objects
    /\ rename.issued = <<"copy">>

====
